---- MODULE Spec2Model ----
\* A model of automation_daily_schedule.py: the Prefect flow main_flow, its two
\* retried tasks get_all_schedules and to_telegram, and the three layers of
\* keyword classification of exception texts.
\*
\* Texts are TLA+ strings, so the substring tests, the lowering and the slices
\* of the source are computed on the characters.  The emoji of the source's
\* literals cannot be written in a TLA+ string; each is replaced by an ASCII
\* tag in parentheses: (x), (hourglass), (lock), (rocket), (check).  No tag
\* contains a keyword any classifier looks for.
EXTENDS Integers, Sequences, FiniteSets, TLC

VARIABLES
    pc,                 \* position of the run inside main_flow and its tasks
    current_date,       \* main_flow: current_date
    TELEGRAM_TOKEN,     \* module global, read from the environment at import
    TELEGRAM_CHAT_ID,   \* module global, read from the environment at import
    tokenFile,          \* "present" or "missing": the file token.json
    fetchRuns,          \* executions of the body of get_all_schedules so far
    notifyRuns,         \* executions of the body of to_telegram so far
    calendar_idx,       \* get_all_schedules: position of the for loop
    all_events,         \* get_all_schedules: all_events
    responses,          \* what each calendar answered in the attempt that queried them
    today_schedules,    \* main_flow: today_schedules ("" while unassigned)
    fetchReturns,       \* attempts of get_all_schedules that returned a value
    notifyArgs,         \* the msg argument of every execution of to_telegram
    sendCalls,          \* keyword arguments of every bot.send_message call
    sendResults,        \* outcome of every bot.send_message call: "ok" or "raised"
    taskError,          \* exception raised by the last failed task attempt
    rawError,           \* text of the underlying exception caught by the last handler
    printed,            \* lines printed by the last step
    raised,             \* message of the exception raised by the last step, "" if none
    flowState,          \* "Running", "Completed" or "Failed"
    flowCategory        \* category main_flow derived, "" if none

vars == <<pc, current_date, TELEGRAM_TOKEN, TELEGRAM_CHAT_ID, tokenFile, fetchRuns,
          notifyRuns, calendar_idx, all_events, responses, today_schedules,
          fetchReturns, notifyArgs, sendCalls, sendResults, taskError, rawError,
          printed, raised, flowState, flowCategory>>

-----------------------------------------------------------------------------
\* Bounds and program constants

\* longest list of events one calendar returns in the model
MaxEvents == 2

\* @task(..., retries=3, ...) of get_all_schedules
FetchRetries == 3

\* @task(..., retries=3, ...) of to_telegram
NotifyRetries == 3

\* the days datetime.now() may fall on
Dates == {"2025-01-01", "2025-06-15"}

NextDay(d) == IF d = "2025-01-01" THEN "2025-01-02" ELSE "2025-06-16"

\* values os.getenv may give: "" stands for both None and the empty string,
\* which `not X` treats alike
EnvValues(secret) == {"", secret}

target_calendars == <<"primary", "id.indonesian#holiday@group.v.calendar.google.com">>

-----------------------------------------------------------------------------
\* String helpers: Python's `in`, str.lower() and slices

Contains(sub, str) ==
    \E i \in 1..(Len(str) - Len(sub) + 1) : SubSeq(str, i, i + Len(sub) - 1) = sub

UpperLetters == "ABCDEFGHIJKLMNOPQRSTUVWXYZ"
LowerLetters == "abcdefghijklmnopqrstuvwxyz"

LowerChar(c) ==
    IF \E i \in 1..26 : SubSeq(UpperLetters, i, i) = c
    THEN LET i == CHOOSE j \in 1..26 : SubSeq(UpperLetters, j, j) = c
         IN  SubSeq(LowerLetters, i, i)
    ELSE c

RECURSIVE LowerFrom(_, _)
LowerFrom(str, i) ==
    IF i > Len(str) THEN "" ELSE LowerChar(SubSeq(str, i, i)) \o LowerFrom(str, i + 1)

\* str[a:b] with 0 <= a <= b, clamped to the length as Python does
Slice(str, a, b) ==
    LET hi == IF b > Len(str) THEN Len(str) ELSE b
    IN  IF a >= hi THEN "" ELSE SubSeq(str, a + 1, hi)

\* dict.get(key, default)
Get(d, key, default) == IF key \in DOMAIN d THEN d[key] ELSE default

\* only a rendered schedule counts
Truthy_OnlySchedule(str) == Len(str) > 0 /\ SubSeq(str, 1, 1) = "S"

Truthy(str) == str # ""

SeqsUpTo(S, n) == UNION {[1..k -> S] : k \in 0..n}

-----------------------------------------------------------------------------
\* The calendar provider: event records and the answers of events().list().execute()

\* a timed event with a title
TimedEvent(d) ==
    [summary |-> "Standup",
     start   |-> [dateTime |-> d \o "T09:00:00+07:00"],
     end     |-> [dateTime |-> d \o "T10:30:00+07:00"]]

\* an all-day event with a title
AllDayEvent(d) ==
    [summary |-> "Holiday", start |-> [date |-> d], end |-> [date |-> NextDay(d)]]

\* a timed event that carries no summary
UntitledEvent(d) ==
    [start |-> [dateTime |-> d \o "T13:00:00+07:00"],
     end   |-> [dateTime |-> d \o "T14:15:00+07:00"]]

\* the events a calendar may hold on day d: the holiday calendar holds only
\* all-day events with a title
Events(calendar_id, d) ==
    IF calendar_id = "primary"
    THEN {TimedEvent(d), AllDayEvent(d), UntitledEvent(d)}
    ELSE {AllDayEvent(d)}

\* One query either raises or returns a result dict, whose "items" key may be absent.
QueryRaised == [raises |-> TRUE]

QueryAnswers(calendar_id, d) ==
    {QueryRaised}
    \cup {[raises |-> FALSE, result |-> [kind |-> "calendar#events"]]}
    \cup {[raises |-> FALSE, result |-> [kind |-> "calendar#events", items |-> s]] :
            s \in SeqsUpTo(Events(calendar_id, d), MaxEvents)}

\* result.get("items", [])
Items(answer) == Get(answer.result, "items", <<>>)

\* One turn of the loop over target_calendars: extend all_events with the
\* items of the answer, or skip the calendar when the query raised.
QueryStep_ClearOnRaise(events, answer) ==
    IF answer.raises THEN <<>> ELSE events \o Items(answer)

QueryStep(events, answer) ==
    IF answer.raises THEN events ELSE events \o Items(answer)

-----------------------------------------------------------------------------
\* get_all_schedules: rendering

NoEventsText_Empty(d) == ""

NoEventsText(d) == "No events scheduled for " \o d \o "."

EventLine(e) ==
    LET title      == Get(e, "summary", "Untitled Event")
        start_raw  == Get(e.start, "dateTime", Get(e.start, "date", ""))
        end_raw    == Get(e.end, "dateTime", Get(e.end, "date", ""))
        event_date == Slice(start_raw, 0, 10)
        time_str   == IF Contains("T", start_raw)
                      THEN Slice(start_raw, 11, 16) \o " - " \o Slice(end_raw, 11, 16)
                      ELSE "All-day"
    IN  "- [" \o event_date \o "] " \o title \o " (" \o time_str \o ")\n"

RECURSIVE EventLines(_, _)
EventLines(events, i) ==
    IF i > Len(events) THEN "" ELSE EventLine(events[i]) \o EventLines(events, i + 1)

\* the empty list is rendered like any other
FormatSchedules_NoSentinel(d, events) ==
    "Schedule for " \o d \o ":\n" \o EventLines(events, 1)

FormatSchedules(d, events) ==
    IF events = <<>>
    THEN NoEventsText(d)
    ELSE "Schedule for " \o d \o ":\n" \o EventLines(events, 1)

-----------------------------------------------------------------------------
\* The safe messages of the three handlers

\* get_all_schedules
FetchAuthMsg    == "Authentication Error: Failed to load Google Calendar credentials securely."
FetchQuotaMsg   == "API Quota Error: Google Calendar API rate limit exceeded."
FetchNetworkMsg == "Network Error: Failed to connect to Google Calendar API."
FetchUnknownMsg == "Unexpected Error: An unknown issue occurred while fetching schedules."

\* to_telegram
MissingCredentialsMsg == "Missing Telegram Credentials"
MissingCredentialsLine == "(x) Error: Telegram credentials are missing."
NotifyNetworkMsg == "(x) Network Error: Failed to connect to Telegram API."
NotifyTimeoutMsg == "(hourglass) Timeout Error: Telegram API did not respond."
NotifySSLMsg     == "(lock) SSL Error: Certificate verification failed."
NotifyUnknownMsg == "(x) Telegram Send Failed: Unknown error occurred."

\* main_flow
FlowAuthMsg     == "Authentication Error: Failed to verify API credentials securely."
FlowCalendarMsg == "Calendar Error: An issue occurred while fetching Google Calendar events."
FlowNetworkMsg  == "Network Error: Connection issues detected during flow execution."
FlowUnknownMsg  == "Unexpected Error: The flow failed due to an unknown issue."

-----------------------------------------------------------------------------
\* Texts of the underlying exceptions the environment produces

MissingFileError == "[Errno 2] No such file or directory: 'token.json'"

\* raised while loading the credentials or building the service, token.json present
CalendarErrors ==
    {"Authorized user info was not in the expected format, missing fields refresh_token.",
     "Quota exceeded for quota metric Queries",
     "HTTPSConnectionPool(host=www.googleapis.com, port=443): Read timed out.",
     "Expecting value: line 1 column 1 (char 0)"}

\* raised by bot.send_message
TelegramErrors ==
    {"httpx.ConnectError: All connection attempts failed (https://api.telegram.org/bot123456:ABC-DEF/sendMessage)",
     "httpx.ReadTimeout: no response from api.telegram.org",
     "[SSL: CERTIFICATE_VERIFY_FAILED] certificate verify failed",
     "Unauthorized"}

\* str.lower().  The texts the run can catch are lowered once and looked up;
\* any other text is lowered on the spot, with the same result.
CaughtTexts ==
    {MissingFileError} \cup CalendarErrors \cup TelegramErrors
    \cup {FetchAuthMsg, FetchQuotaMsg, FetchNetworkMsg, FetchUnknownMsg,
          MissingCredentialsMsg, NotifyNetworkMsg, NotifyTimeoutMsg, NotifySSLMsg,
          NotifyUnknownMsg}

Lowered == [t \in CaughtTexts |-> LowerFrom(t, 1)]

Lower(str) == IF str \in CaughtTexts THEN Lowered[str] ELSE LowerFrom(str, 1)

-----------------------------------------------------------------------------
\* The three classifiers.  Each takes the lowered text of the caught exception.

\* the else branch hands on the text it was given
FetchClassify_Leak(error_str) ==
    IF Contains("credentials", error_str) \/ Contains("token", error_str)
       \/ Contains("json", error_str)
    THEN FetchAuthMsg
    ELSE IF Contains("quota", error_str) \/ Contains("ratelimit", error_str)
    THEN FetchQuotaMsg
    ELSE IF Contains("network", error_str) \/ Contains("connection", error_str)
            \/ Contains("timeout", error_str)
    THEN FetchNetworkMsg
    ELSE error_str

FetchClassify(error_str) ==
    IF Contains("credentials", error_str) \/ Contains("token", error_str)
       \/ Contains("json", error_str)
    THEN FetchAuthMsg
    ELSE IF Contains("quota", error_str) \/ Contains("ratelimit", error_str)
    THEN FetchQuotaMsg
    ELSE IF Contains("network", error_str) \/ Contains("connection", error_str)
            \/ Contains("timeout", error_str)
    THEN FetchNetworkMsg
    ELSE FetchUnknownMsg

NotifyClassify(error_str) ==
    IF Contains("connection", error_str) \/ Contains("dns", error_str)
    THEN NotifyNetworkMsg
    ELSE IF Contains("timeout", error_str)
    THEN NotifyTimeoutMsg
    ELSE IF Contains("ssl", error_str)
    THEN NotifySSLMsg
    ELSE NotifyUnknownMsg

\* the network test comes before the calendar test
FlowClassify_NetworkFirst(error_str) ==
    IF Contains("credentials", error_str) \/ Contains("token", error_str)
       \/ Contains("auth", error_str)
    THEN FlowAuthMsg
    ELSE IF Contains("network", error_str) \/ Contains("connection", error_str)
            \/ Contains("timeout", error_str)
    THEN FlowNetworkMsg
    ELSE IF Contains("calendar", error_str)
    THEN FlowCalendarMsg
    ELSE FlowUnknownMsg

FlowClassify(error_str) ==
    IF Contains("credentials", error_str) \/ Contains("token", error_str)
       \/ Contains("auth", error_str)
    THEN FlowAuthMsg
    ELSE IF Contains("calendar", error_str)
    THEN FlowCalendarMsg
    ELSE IF Contains("network", error_str) \/ Contains("connection", error_str)
            \/ Contains("timeout", error_str)
    THEN FlowNetworkMsg
    ELSE FlowUnknownMsg

FetchLogLine(error_msg) == "Calendar Task Failed: " \o error_msg
FlowLogLine(error_msg)  == "Failed to load today's schedule: " \o error_msg
SendingLine == "(rocket) Sending message via Python-Telegram-Bot..."
SuccessLine == "(check) Success: Message sent to Telegram (via PTB)!"

-----------------------------------------------------------------------------
\* Prefect's task retries: a failed attempt is run again while the number of
\* runs so far does not exceed `retries`; after that the exception of the last
\* attempt is raised into the flow.

AfterTaskFailure_OneFewer(task, runs, retries) ==
    IF runs < retries THEN task ELSE "main_flow_except"

AfterTaskFailure_RestartFlow(task, runs, retries) ==
    IF runs <= retries THEN "get_all_schedules" ELSE "main_flow_except"

AfterTaskFailure(task, runs, retries) ==
    IF runs <= retries THEN task ELSE "main_flow_except"

NoError == [type |-> "None", msg |-> ""]

\* keyword arguments of bot.send_message
SendMessageArgs_Truncated(msg) ==
    [chat_id |-> TELEGRAM_CHAT_ID, text |-> Slice(msg, 0, 20), parse_mode |-> "Markdown"]

SendMessageArgs(msg) ==
    [chat_id |-> TELEGRAM_CHAT_ID, text |-> msg, parse_mode |-> "Markdown"]

-----------------------------------------------------------------------------
\* The run

Init ==
    /\ pc = "main_flow"
    /\ current_date = ""
    /\ TELEGRAM_TOKEN \in EnvValues("123456:ABC-DEF")
    /\ TELEGRAM_CHAT_ID \in EnvValues("-1002003004")
    /\ tokenFile \in {"present", "missing"}
    /\ fetchRuns = 0
    /\ notifyRuns = 0
    /\ calendar_idx = 1
    /\ all_events = <<>>
    /\ responses = <<>>
    /\ today_schedules = ""
    /\ fetchReturns = 0
    /\ notifyArgs = <<>>
    /\ sendCalls = <<>>
    /\ sendResults = <<>>
    /\ taskError = NoError
    /\ rawError = ""
    /\ printed = <<>>
    /\ raised = ""
    /\ flowState = "Running"
    /\ flowCategory = ""

\* main_flow, up to the call of get_all_schedules: current_date is today's date
MainFlowStart ==
    /\ pc = "main_flow"
    /\ \E d \in Dates : current_date' = d
    /\ pc' = "get_all_schedules"
    /\ printed' = <<>>
    /\ raised' = ""
    /\ rawError' = ""
    /\ UNCHANGED <<TELEGRAM_TOKEN, TELEGRAM_CHAT_ID, tokenFile, fetchRuns, notifyRuns,
                   calendar_idx, all_events, responses, today_schedules, fetchReturns,
                   notifyArgs, sendCalls, sendResults, taskError, flowState, flowCategory>>

\* get_all_schedules: an attempt starts; the credentials load and the service
\* is built, and the loop over target_calendars is about to start
FetchAuthenticated ==
    /\ pc = "get_all_schedules"
    /\ tokenFile = "present"
    /\ fetchRuns' = fetchRuns + 1
    /\ all_events' = <<>>
    /\ responses' = <<>>
    /\ calendar_idx' = 1
    /\ pc' = "query"
    /\ printed' = <<>>
    /\ raised' = ""
    /\ rawError' = ""
    /\ UNCHANGED <<current_date, TELEGRAM_TOKEN, TELEGRAM_CHAT_ID, tokenFile, notifyRuns,
                   today_schedules, fetchReturns, notifyArgs, sendCalls, sendResults,
                   taskError, flowState, flowCategory>>

\* get_all_schedules: an attempt starts and loading the credentials or building
\* the service raises; the outer handler classifies, prints and raises, and
\* Prefect retries the task or hands the exception to main_flow
FetchRaises ==
    /\ pc = "get_all_schedules"
    /\ \E e \in (IF tokenFile = "missing" THEN {MissingFileError} ELSE CalendarErrors) :
         LET error_str == Lower(e)
             error_msg == FetchClassify(error_str)
         IN  /\ rawError' = e
             /\ printed' = <<FetchLogLine(error_msg)>>
             /\ raised' = error_msg
             /\ taskError' = [type |-> "Exception", msg |-> error_msg]
    /\ fetchRuns' = fetchRuns + 1
    /\ pc' = AfterTaskFailure("get_all_schedules", fetchRuns', FetchRetries)
    /\ UNCHANGED <<current_date, TELEGRAM_TOKEN, TELEGRAM_CHAT_ID, tokenFile, notifyRuns,
                   calendar_idx, all_events, responses, today_schedules, fetchReturns,
                   notifyArgs, sendCalls, sendResults, flowState, flowCategory>>

\* get_all_schedules: one turn of the loop over target_calendars
QueryCalendar ==
    /\ pc = "query"
    /\ calendar_idx <= Len(target_calendars)
    /\ \E answer \in QueryAnswers(target_calendars[calendar_idx], current_date) :
         /\ all_events' = QueryStep(all_events, answer)
         /\ responses' = Append(responses, answer)
    /\ calendar_idx' = calendar_idx + 1
    /\ printed' = <<>>
    /\ raised' = ""
    /\ rawError' = ""
    /\ UNCHANGED <<pc, current_date, TELEGRAM_TOKEN, TELEGRAM_CHAT_ID, tokenFile,
                   fetchRuns, notifyRuns, today_schedules, fetchReturns, notifyArgs,
                   sendCalls, sendResults, taskError, flowState, flowCategory>>

\* get_all_schedules: after the loop the events are rendered and returned;
\* main_flow assigns the value to today_schedules
FetchReturn ==
    /\ pc = "query"
    /\ calendar_idx > Len(target_calendars)
    /\ today_schedules' = FormatSchedules(current_date, all_events)
    /\ fetchReturns' = fetchReturns + 1
    /\ taskError' = NoError
    /\ pc' = "main_flow_check"
    /\ printed' = <<>>
    /\ raised' = ""
    /\ rawError' = ""
    /\ UNCHANGED <<current_date, TELEGRAM_TOKEN, TELEGRAM_CHAT_ID, tokenFile, fetchRuns,
                   notifyRuns, calendar_idx, all_events, responses, notifyArgs,
                   sendCalls, sendResults, flowState, flowCategory>>

\* main_flow: `if today_schedules:`; the flow ends here when the value is falsy
MainFlowCheck ==
    /\ pc = "main_flow_check"
    /\ IF Truthy(today_schedules)
       THEN pc' = "to_telegram" /\ flowState' = flowState
       ELSE pc' = "done" /\ flowState' = "Completed"
    /\ printed' = <<>>
    /\ raised' = ""
    /\ rawError' = ""
    /\ UNCHANGED <<current_date, TELEGRAM_TOKEN, TELEGRAM_CHAT_ID, tokenFile, fetchRuns,
                   notifyRuns, calendar_idx, all_events, responses, today_schedules,
                   fetchReturns, notifyArgs, sendCalls, sendResults, taskError,
                   flowCategory>>

\* `not TELEGRAM_TOKEN or not TELEGRAM_CHAT_ID`
CredentialsMissing == TELEGRAM_TOKEN = "" \/ TELEGRAM_CHAT_ID = ""

\* to_telegram: an attempt that finds a credential missing
NotifyMissingCredentials ==
    /\ pc = "to_telegram"
    /\ CredentialsMissing
    /\ notifyRuns' = notifyRuns + 1
    /\ notifyArgs' = Append(notifyArgs, today_schedules)
    /\ printed' = <<MissingCredentialsLine>>
    /\ raised' = MissingCredentialsMsg
    /\ rawError' = ""
    /\ taskError' = [type |-> "ValueError", msg |-> MissingCredentialsMsg]
    /\ pc' = AfterTaskFailure("to_telegram", notifyRuns', NotifyRetries)
    /\ UNCHANGED <<current_date, TELEGRAM_TOKEN, TELEGRAM_CHAT_ID, tokenFile, fetchRuns,
                   calendar_idx, all_events, responses, today_schedules, fetchReturns,
                   sendCalls, sendResults, flowState, flowCategory>>

\* to_telegram: an attempt whose send succeeds; main_flow returns
NotifySent ==
    /\ pc = "to_telegram"
    /\ ~CredentialsMissing
    /\ notifyRuns' = notifyRuns + 1
    /\ notifyArgs' = Append(notifyArgs, today_schedules)
    /\ sendCalls' = Append(sendCalls, SendMessageArgs(today_schedules))
    /\ sendResults' = Append(sendResults, "ok")
    /\ printed' = <<SendingLine, SuccessLine>>
    /\ raised' = ""
    /\ rawError' = ""
    /\ taskError' = NoError
    /\ pc' = "done"
    /\ flowState' = "Completed"
    /\ UNCHANGED <<current_date, TELEGRAM_TOKEN, TELEGRAM_CHAT_ID, tokenFile, fetchRuns,
                   calendar_idx, all_events, responses, today_schedules, fetchReturns,
                   flowCategory>>

\* to_telegram: an attempt whose send raises; the handler classifies, prints
\* and raises, and Prefect retries the task or hands the exception to main_flow
NotifySendRaises ==
    /\ pc = "to_telegram"
    /\ ~CredentialsMissing
    /\ notifyRuns' = notifyRuns + 1
    /\ notifyArgs' = Append(notifyArgs, today_schedules)
    /\ sendCalls' = Append(sendCalls, SendMessageArgs(today_schedules))
    /\ sendResults' = Append(sendResults, "raised")
    /\ \E e \in TelegramErrors :
         LET error_str == Lower(e)
             safe_msg  == NotifyClassify(error_str)
         IN  /\ rawError' = e
             /\ printed' = <<SendingLine, safe_msg>>
             /\ raised' = safe_msg
             /\ taskError' = [type |-> "Exception", msg |-> safe_msg]
    /\ pc' = AfterTaskFailure("to_telegram", notifyRuns', NotifyRetries)
    /\ UNCHANGED <<current_date, TELEGRAM_TOKEN, TELEGRAM_CHAT_ID, tokenFile, fetchRuns,
                   calendar_idx, all_events, responses, today_schedules, fetchReturns,
                   flowState, flowCategory>>

\* main_flow: the handler of whatever a task raised after its last attempt
MainFlowExcept ==
    /\ pc = "main_flow_except"
    /\ LET error_str == Lower(taskError.msg)
           error_msg == FlowClassify(error_str)
       IN  /\ rawError' = taskError.msg
           /\ flowCategory' = error_msg
           /\ printed' = <<FlowLogLine(error_msg)>>
           /\ raised' = error_msg
    /\ flowState' = "Failed"
    /\ pc' = "done"
    /\ UNCHANGED <<current_date, TELEGRAM_TOKEN, TELEGRAM_CHAT_ID, tokenFile, fetchRuns,
                   notifyRuns, calendar_idx, all_events, responses, today_schedules,
                   fetchReturns, notifyArgs, sendCalls, sendResults, taskError>>

Next ==
    \/ MainFlowStart
    \/ FetchAuthenticated
    \/ FetchRaises
    \/ QueryCalendar
    \/ FetchReturn
    \/ MainFlowCheck
    \/ NotifyMissingCredentials
    \/ NotifySent
    \/ NotifySendRaises
    \/ MainFlowExcept

Spec == Init /\ [][Next]_vars

-----------------------------------------------------------------------------
\* Properties

Done == pc = "done"

SendSucceeded == \E i \in DOMAIN sendResults : sendResults[i] = "ok"

Sentinel == "No events scheduled for " \o current_date \o "."

\* what calendar i contributed: nothing when its query raised
Kept(i) ==
    IF responses[i].raises THEN <<>>
    ELSE IF "items" \in DOMAIN responses[i].result THEN responses[i].result.items
    ELSE <<>>

AllQueried == Len(responses) = Len(target_calendars)

\* C1: with the token or the chat id absent, a finished run that reached
\* to_telegram executed its body exactly once, made no send call and failed.
C1_MissingCredentialsNotRetried ==
    (Done /\ CredentialsMissing /\ fetchReturns > 0)
        => (notifyRuns = 1 /\ sendCalls = <<>> /\ flowState = "Failed")

\* C2 as stated: with token.json missing, get_all_schedules has been executed
\* exactly 3 times when the run has ended.
C2_ThreeExecutions ==
    (Done /\ tokenFile = "missing") => fetchRuns = 3

\* C2, amended: with token.json missing, every execution of get_all_schedules
\* fails with the Authentication message (printed and raised), the task gives
\* up only after FetchRetries + 1 = 4 executions, and it is never executed more.
C2_FourExecutionsAllAuthentication ==
    tokenFile = "missing" =>
        /\ fetchReturns = 0
        /\ fetchRuns <= FetchRetries + 1
        /\ (fetchRuns > 0 => taskError = [type |-> "Exception", msg |-> FetchAuthMsg])
        /\ (pc = "get_all_schedules" /\ fetchRuns > 0 =>
                /\ raised = FetchAuthMsg
                /\ printed = <<"Calendar Task Failed: " \o FetchAuthMsg>>)
        /\ (pc = "get_all_schedules" => fetchRuns <= FetchRetries)
        /\ (pc \in {"main_flow_except", "done"} =>
                fetchRuns = 4 /\ notifyRuns = 0 /\ sendCalls = <<>>)
        /\ (Done => flowState = "Failed")

C2_Witness ==
    /\ Done
    /\ tokenFile = "missing"
    /\ fetchRuns = 4
    /\ taskError.msg = FetchAuthMsg
    /\ flowState = "Failed"

\* C3: when get_all_schedules returned and the first send succeeded, the run
\* made exactly one send call, its text is the string get_all_schedules
\* returned, and the run completed.
C3_OneSendOfTheSummary ==
    (Done /\ fetchReturns > 0 /\ Len(sendResults) >= 1 /\ sendResults[1] = "ok") =>
        /\ Len(sendCalls) = 1
        /\ sendCalls[1].text = today_schedules
        /\ sendCalls[1].text = FormatSchedules(current_date, all_events)
        /\ flowState = "Completed"

C3_Witness ==
    /\ Done
    /\ current_date = "2025-01-01"
    /\ all_events = <<TimedEvent("2025-01-01"), AllDayEvent("2025-01-01")>>
    /\ sendResults = <<"ok">>
    /\ Len(sendCalls) = 1
    /\ sendCalls[1].text =
         "Schedule for 2025-01-01:\n- [2025-01-01] Standup (09:00 - 10:30)\n- [2025-01-01] Holiday (All-day)\n"
    /\ flowState = "Completed"

\* C4: a finished run is Completed exactly when an attempt of get_all_schedules
\* returned and a send after it succeeded; every other finished run is Failed,
\* and no run is reported before it has finished.
C4_NoPartialSuccess ==
    /\ (Done => flowState \in {"Completed", "Failed"})
    /\ (Done => (flowState = "Completed" <=> (fetchReturns > 0 /\ SendSucceeded)))
    /\ (~Done => flowState = "Running")
    /\ (SendSucceeded => fetchReturns > 0)

C4_Witness ==
    /\ Done
    /\ fetchReturns = 1
    /\ notifyRuns = NotifyRetries + 1
    /\ ~SendSucceeded
    /\ flowState = "Failed"

\* C5: when every calendar answered with no events, get_all_schedules returns
\* exactly "No events scheduled for {date}.", and main_flow goes on to
\* to_telegram with it: the send step is not skipped.
C5_SentinelIsSent ==
    (AllQueried /\ fetchReturns > 0
     /\ \A i \in DOMAIN responses : ~responses[i].raises /\ Kept(i) = <<>>) =>
        /\ today_schedules = Sentinel
        /\ (pc \notin {"main_flow_check", "to_telegram"} => notifyRuns >= 1)
        /\ (pc = "to_telegram" => flowState = "Running")
        /\ \A i \in DOMAIN notifyArgs : notifyArgs[i] = Sentinel
        /\ \A i \in DOMAIN sendCalls : sendCalls[i].text = Sentinel

C5_Witness ==
    /\ Done
    /\ AllQueried
    /\ \A i \in DOMAIN responses : ~responses[i].raises /\ Kept(i) = <<>>
    /\ notifyArgs = <<"No events scheduled for 2025-06-15.">>
    /\ Len(sendCalls) = 1
    /\ sendCalls[1].text = "No events scheduled for 2025-06-15."

\* C6: a calendar whose query raises does not fail get_all_schedules: the
\* loop goes on to the next calendar, the attempt returns, and all_events is
\* what the calendars that answered returned, in the order of target_calendars
\* and, within one calendar, in the order of its answer.
C6_OneBadSourceIsSkipped ==
    /\ (responses # <<>> /\ fetchReturns = 0) =>
            /\ pc = "query"
            /\ calendar_idx = Len(responses) + 1
            /\ raised = ""
    /\ responses # <<>> => pc # "get_all_schedules"
    /\ Len(responses) = 1 => all_events = Kept(1)
    /\ Len(responses) = 2 => all_events = Kept(1) \o Kept(2)
    /\ (AllQueried /\ pc # "query") => fetchReturns = 1
    /\ (fetchReturns = 1 /\ all_events # <<>>) =>
            today_schedules = "Schedule for " \o current_date \o ":\n"
                                \o EventLines(all_events, 1)

C6_Witness ==
    /\ Done
    /\ AllQueried
    /\ responses[2].raises
    /\ ~responses[1].raises
    /\ all_events = <<AllDayEvent(current_date), UntitledEvent(current_date)>>
    /\ fetchReturns = 1

C6_WitnessFirstRaises ==
    /\ Done
    /\ AllQueried
    /\ responses[1].raises
    /\ ~responses[2].raises
    /\ all_events = <<AllDayEvent(current_date)>>
    /\ fetchReturns = 1

\* the messages the three handlers may raise
SafeMessages ==
    {FetchAuthMsg, FetchQuotaMsg, FetchNetworkMsg, FetchUnknownMsg,
     MissingCredentialsMsg, NotifyNetworkMsg, NotifyTimeoutMsg, NotifySSLMsg,
     NotifyUnknownMsg,
     FlowAuthMsg, FlowCalendarMsg, FlowNetworkMsg, FlowUnknownMsg}

\* the lines the run may print
SafeLines ==
    {"Calendar Task Failed: " \o m :
        m \in {FetchAuthMsg, FetchQuotaMsg, FetchNetworkMsg, FetchUnknownMsg}}
    \cup {MissingCredentialsLine, SendingLine, SuccessLine}
    \cup {NotifyNetworkMsg, NotifyTimeoutMsg, NotifySSLMsg, NotifyUnknownMsg}
    \cup {"Failed to load today's schedule: " \o m :
            m \in {FlowAuthMsg, FlowCalendarMsg, FlowNetworkMsg, FlowUnknownMsg}}

C8_TotalOutageLooksLikeNoEvents ==
    (AllQueried /\ \A i \in DOMAIN responses : responses[i].raises) =>
        /\ all_events = <<>>
        /\ pc \in {"query", "main_flow_check", "to_telegram", "main_flow_except", "done"}
        /\ (pc # "query" =>
                /\ fetchReturns = 1
                /\ today_schedules = Sentinel)
        /\ (pc \in {"main_flow_except", "done"} => notifyRuns >= 1)
        /\ \A i \in DOMAIN notifyArgs : notifyArgs[i] = Sentinel
        /\ \A i \in DOMAIN sendCalls : sendCalls[i].text = Sentinel
        /\ ((Done /\ SendSucceeded) => flowState = "Completed")
        /\ ((Done /\ flowState = "Failed") => taskError.msg \notin
                {FetchAuthMsg, FetchQuotaMsg, FetchNetworkMsg, FetchUnknownMsg})

C8_Witness ==
    /\ Done
    /\ AllQueried
    /\ \A i \in DOMAIN responses : responses[i].raises
    /\ fetchRuns = 1
    /\ sendResults = <<"ok">>
    /\ sendCalls[1].text = "No events scheduled for 2025-01-01."
    /\ flowState = "Completed"

\* the category main_flow is expected to report for each message a task raises
ExpectedCategory(msg) ==
    CASE msg = FetchAuthMsg          -> FlowAuthMsg
      [] msg = FetchQuotaMsg         -> FlowCalendarMsg
      [] msg = FetchNetworkMsg       -> FlowCalendarMsg
      [] msg = FetchUnknownMsg       -> FlowUnknownMsg
      [] msg = MissingCredentialsMsg -> FlowAuthMsg
      [] msg = NotifyNetworkMsg      -> FlowNetworkMsg
      [] msg = NotifyTimeoutMsg      -> FlowNetworkMsg
      [] msg = NotifySSLMsg          -> FlowUnknownMsg
      [] msg = NotifyUnknownMsg      -> FlowUnknownMsg
      [] OTHER                       -> "(none)"

\* C9: the category a failed run reports is the one the claim lists for the
\* message of the failed task: a fetch failure reports Authentication,
\* Calendar (for Quota and Network) or Unexpected; a send failure reports
\* Authentication (missing credentials), Network (Network, Timeout) or
\* Unexpected (SSL, Unknown).
C9_FlowCategory ==
    (Done /\ flowState = "Failed") =>
        /\ flowCategory = ExpectedCategory(taskError.msg)
        /\ raised = flowCategory
        /\ (fetchReturns = 0 =>
                taskError.msg \in {FetchAuthMsg, FetchQuotaMsg, FetchNetworkMsg, FetchUnknownMsg})
        /\ (fetchReturns = 0 => flowCategory # FlowNetworkMsg)
        /\ (fetchReturns > 0 =>
                taskError.msg \in {MissingCredentialsMsg, NotifyNetworkMsg, NotifyTimeoutMsg,
                                   NotifySSLMsg, NotifyUnknownMsg})
        /\ (fetchReturns > 0 => flowCategory # FlowCalendarMsg)

C9_Witness ==
    /\ Done
    /\ flowState = "Failed"
    /\ taskError.msg = FetchNetworkMsg
    /\ flowCategory = FlowCalendarMsg

\* C10: to_telegram is not executed before an attempt of get_all_schedules has
\* returned; once to_telegram has been executed, get_all_schedules is not
\* executed again and today_schedules does not change; every execution of
\* to_telegram is given the text the one returning attempt returned.
C10_SequentialPerTaskRetries ==
    /\ [](/\ fetchReturns <= 1
          /\ (notifyRuns > 0 => fetchReturns = 1)
          /\ Len(notifyArgs) = notifyRuns
          /\ \A i \in DOMAIN notifyArgs : notifyArgs[i] = today_schedules
          /\ \A i \in DOMAIN sendCalls : sendCalls[i].text = today_schedules)
    /\ [][notifyRuns > 0 =>
            /\ fetchRuns' = fetchRuns
            /\ fetchReturns' = fetchReturns
            /\ today_schedules' = today_schedules]_vars

C10_Witness ==
    /\ Done
    /\ fetchRuns = 2
    /\ fetchReturns = 1
    /\ notifyRuns = NotifyRetries + 1
    /\ Len(sendCalls) = 4
    /\ flowState = "Failed"

=============================================================================
